---- MODULE Spec2Model ----
(***************************************************************************)
(* A model of turbo_diesel: the DbDriver (src/src/db.rs) with its r2d2      *)
(* connection pool, the blocking offload done by DbDriver::execute, the     *)
(* three entity contracts (create, del_by_pk, del_by) as implemented for    *)
(* DbUser (src/src/main.rs), and the GenericFilter (src/src/filter.rs).     *)
(*                                                                         *)
(* One call of execute is followed through the places its code visits:      *)
(*   idle -> spawned   execute clones the driver and spawn_blocking queues  *)
(*                     the closure (db.rs:72-73)                            *)
(*   spawned -> working / joined   get_conn on the worker (db.rs:74-76)     *)
(*   working -> worked  the unit of work runs its statement (db.rs:77)      *)
(*   worked -> joined   the closure returns, the connection is dropped      *)
(*   joined -> resolved the awaiting caller maps the join result            *)
(*                      (db.rs:79-80)                                       *)
(*   resolved -> idle   the caller goes on                                  *)
(***************************************************************************)
EXTENDS Integers, FiniteSets, Sequences, TLC

\* ------------------------------------------------------------------ bounds
\* The number of caller tasks that use clones of the one driver.
NumTasks == 2
\* The largest pool size a run has.  DbDriver::new takes r2d2's default
\* max_size; the model lets the size be any of 1..MaxPoolSize so that a pool
\* is exhausted by NumTasks callers.
MaxPoolSize == 2

Tasks == 1..NumTasks

\* ------------------------------------------------------------------ values
\* users (id) { id -> Varchar, name -> Varchar }
Ids == {"1", "2"}
Names == {"a", "test"}
\* The keys callers pass to del_by_pk: main.rs deletes "123", never inserted.
Pks == Ids \cup {"123"}

DbUser(id, name) == [id |-> id, name |-> name]
Users == {DbUser(i, n) : i \in Ids, n \in Names}

\* DbDriver::new has not been called yet.
NotCalled == "NotCalled"
\* No value yet in a slot that will hold a Result.
NoResult == [tag |-> "None"]

\* Result<R, diesel::result::Error> as the code builds it.
Ok(v) == [tag |-> "Ok", val |-> v]
Err(e) == [tag |-> "Err", err |-> e]
\* The unit value of Ok(()).
Unit == "()"
\* spawn_blocking's JoinError: what the join handle holds when the closure panicked.
JoinError == [tag |-> "JoinError"]

\* diesel::result::Error values that occur.
BrokenTransactionManager == "BrokenTransactionManager"
UniqueViolation == "DatabaseError(UniqueViolation)"
NotFound == "NotFound"

\* ------------------------------------------------------------------ filter
\* GenericClause: the variants whose operands are strings or string lists.
Eq(v) == [kind |-> "Eq", args |-> <<v>>]
Ne(v) == [kind |-> "Ne", args |-> <<v>>]
In(vs) == [kind |-> "In", args |-> vs]
NotIn(vs) == [kind |-> "NotIn", args |-> vs]

\* An empty HashMap<String, GenericClause>.
EmptyMap == [k \in {} |-> Eq("")]

\* Option<T>: Some(v), and None (with T's default in the unused field).
Some(v) == [some |-> TRUE, v |-> v]
NoneMap == [some |-> FALSE, v |-> EmptyMap]
NoneUsize == [some |-> FALSE, v |-> 0]

\* GenericFilter::new(): Self::default(), every field None.
GenericFilterNew == [where |-> NoneMap, limit |-> NoneUsize, offset |-> NoneUsize]

\* Option::unwrap_or_default on the where map.
UnwrapOrDefault(w) == IF w.some THEN w.v ELSE EmptyMap

\* A where that starts a fresh map on every call, losing the other keys.
WhereForgetsOthers(f, key, clause) == [f EXCEPT !.where = Some([k \in {key} |-> clause])]

\* GenericFilter::where(key, clause): insert into the map, made first if None.
Where(f, key, clause) ==
  LET m == UnwrapOrDefault(f.where)
  IN [f EXCEPT !.where =
        Some([k \in (DOMAIN m) \cup {key} |-> IF k = key THEN clause ELSE m[k]])]

\* GenericFilter::limit(n) and GenericFilter::offset(n).
Limit(f, n) == [f EXCEPT !.limit = Some(n)]
Offset(f, n) == [f EXCEPT !.offset = Some(n)]

\* Elements of a Vec<String>.
Elems(s) == {s[i] : i \in DOMAIN s}

\* The native predicate a (field, clause) pair stands for (SQL on a NOT NULL
\* Varchar column).
ClauseHolds(row, field, clause) ==
  LET x == row[field]
  IN CASE clause.kind = "Eq" -> x = clause.args[1]
       [] clause.kind = "Ne" -> x # clause.args[1]
       [] clause.kind = "In" -> x \in Elems(clause.args)
       [] clause.kind = "NotIn" -> x \notin Elems(clause.args)

\* The filters callers pass to del_by.
Filters ==
  { GenericFilterNew,
    [GenericFilterNew EXCEPT !.where = Some(EmptyMap)],
    Where(GenericFilterNew, "id", Eq("1")),
    Where(GenericFilterNew, "id", In(<<>>)),
    Where(GenericFilterNew, "name", NotIn(<<>>)),
    Where(Where(GenericFilterNew, "id", Ne("1")), "name", Eq("a")),
    Limit(Where(GenericFilterNew, "id", In(<<"2", "123">>)), 1) }

\* ------------------------------------------------------------------ statements
\* A boxed DELETE statement on users: the predicates ANDed into its WHERE.
DeleteFrom(preds) == [from |-> "users", preds |-> preds]

\* A translation that selects no row whatever the filter.
gen_del_query_none(filter) == DeleteFrom({<<"id", In(<<>>)>>})

\* DbUser::gen_del_query: the statement is diesel::delete(table).into_boxed();
\* the where map is read into a local and never applied to the query.
gen_del_query(filter) ==
  LET where == UnwrapOrDefault(filter.where)
  IN DeleteFrom({})

\* The rows a DELETE statement removes: those satisfying every predicate.
Selected(query, rows) ==
  {r \in rows : \A p \in query.preds : ClauseHolds(r, p[1], p[2])}

\* A find that drops its key: every row is selected.
FindAny(pk) == DeleteFrom({})

\* table.find(pk): WHERE id = pk.
Find(pk) == DeleteFrom({<<"id", Eq(pk)>>})

\* An insert that returns the key with the first name instead of the stored row.
InsertResultKeyOnly(item, rows) ==
  IF \E r \in rows : r.id = item.id THEN Err(UniqueViolation) ELSE Ok(DbUser(item.id, "a"))

\* An insert that replaces the row already stored under the key (an upsert).
InsertRowsReplaces(item, rows) == {r \in rows : r.id # item.id} \cup {item}

\* INSERT INTO users VALUES item RETURNING *: a duplicate primary key is a
\* unique violation, otherwise the row is stored and returned.
InsertResult(item, rows) ==
  IF \E r \in rows : r.id = item.id THEN Err(UniqueViolation) ELSE Ok(item)
InsertRows(item, rows) ==
  IF \E r \in rows : r.id = item.id THEN rows ELSE rows \cup {item}

\* The operations a caller may start.  "execute" is a direct call of
\* DbDriver::execute with a caller-written unit of work whose outcome is given.
Works == {Ok("r"), Err(NotFound), Err(BrokenTransactionManager), [tag |-> "panic"]}
Ops ==
  {[kind |-> "create", item |-> u] : u \in Users}
  \cup {[kind |-> "del_by_pk", pk |-> k] : k \in Pks}
  \cup {[kind |-> "del_by", filter |-> f] : f \in Filters}
  \cup {[kind |-> "execute", work |-> w] : w \in Works}
NoOp == [kind |-> "none"]

\* The operations of the runs that explore the scheduling of NumTasks callers:
\* an insert and a delete of the same row (Ok, or a unique violation), and the
\* caller-written units of work that fail.
SchedOps ==
  {[kind |-> "create", item |-> DbUser("1", "a")],
   [kind |-> "del_by_pk", pk |-> "1"]}
  \cup {[kind |-> "execute", work |-> w] : w \in Works \ {Ok("r")}}

\* The callers of the runs that explore every operation: two, so that another
\* caller's statement can fall between a call and its own statement.
CrudTasks == {t \in Tasks : t <= 2}

\* The pool sizes of the runs that explore every operation: one connection
\* (the two callers contend) and two (they never do); a larger pool gives two
\* callers nothing new.
CrudSizes == {s \in 1..MaxPoolSize : s <= 2}

\* A copy that keeps the where map and forgets limit and offset.
CloneFilterWhereOnly(f) == [where |-> f.where, limit |-> NoneUsize, offset |-> NoneUsize]

\* #[derive(Clone)] on GenericFilter: a new value with a copy of each field.
CloneFilter(f) == [where |-> f.where, limit |-> f.limit, offset |-> f.offset]

\* What the closure handed to execute owns: item.to_owned(), pk.to_owned(),
\* filter.clone(), or the caller's own unit of work moved into it.
Capture(o) ==
  CASE o.kind = "create" -> [kind |-> "create", item |-> DbUser(o.item.id, o.item.name)]
    [] o.kind = "del_by_pk" -> [kind |-> "del_by_pk", pk |-> o.pk]
    [] o.kind = "del_by" -> [kind |-> "del_by", filter |-> CloneFilter(o.filter)]
    [] o.kind = "execute" -> [kind |-> "execute", work |-> o.work]

\* No builder method has been called on the filter yet: it is GenericFilter::new().
NoCall == [fn |-> "new", key |-> "", clause |-> Eq(""), n |-> 0, before |-> GenericFilterNew]

\* ------------------------------------------------------------------ state
VARIABLES
  newResult,  \* what DbDriver::new returned: NotCalled, "Ok" or "NotConnected"
  poolSize,   \* the pool's max_size, 0 before a pool exists
  idle,       \* per pool: its idle connections (the free list)
  table,      \* the rows of users
  pc,         \* per task: where its current execute call is
  op,         \* per task: the operation of the current call
  self_ptr,   \* per task: the pool its clone of the driver refers to
  conn,       \* per task: the PooledConnections its closure owns (none or one)
  ret,        \* per task: what the join handle holds once the closure ended
  result,     \* per task: what execute resolved to
  acquired,   \* per task: connections acquired during the current call
  released,   \* per task: connections returned during the current call
  seen,       \* per task: the rows its statement found, kept until it returns (history)
  left,       \* per task: the rows its statement left, kept until it returns (history)
  captured,   \* per task: the owned copy of the arguments its closure was given
  cancelled,  \* per task: the calling task was dropped while awaiting execute
  attempts,   \* per task: calls of get_conn during the current call (history)
  invoked,    \* per task: invocations of the unit of work during the current call (history)
  built,      \* the GenericFilter a caller is building
  applied     \* the builder call that made it, with its receiver (history)

callVars == <<captured, attempts, invoked>>
filterVars == <<built, applied>>
vars == <<newResult, poolSize, idle, table, pc, op, self_ptr, conn, ret, result, acquired, released,
          seen, left, captured, cancelled, attempts, invoked, built, applied>>

Conns == 1..MaxPoolSize

\* The pool the driver made by DbDriver::new owns.
Db == 0
\* The pools there can be: the driver's, and one per task should its clone of
\* the driver not share the driver's.
Pools == {Db} \cup Tasks

Init ==
  /\ newResult = NotCalled
  /\ poolSize = 0
  /\ idle = [h \in Pools |-> {}]
  /\ table \in {{}, {DbUser("1", "a")}, {DbUser("1", "test"), DbUser("2", "a")}}
  /\ pc = [t \in Tasks |-> "idle"]
  /\ op = [t \in Tasks |-> NoOp]
  /\ self_ptr = [t \in Tasks |-> Db]
  /\ conn = [t \in Tasks |-> {}]
  /\ ret = [t \in Tasks |-> NoResult]
  /\ result = [t \in Tasks |-> NoResult]
  /\ acquired = [t \in Tasks |-> 0]
  /\ released = [t \in Tasks |-> 0]
  /\ seen = [t \in Tasks |-> {}]
  /\ left = [t \in Tasks |-> {}]
  /\ captured = [t \in Tasks |-> NoOp]
  /\ cancelled = [t \in Tasks |-> FALSE]
  /\ attempts = [t \in Tasks |-> 0]
  /\ invoked = [t \in Tasks |-> 0]
  /\ built = GenericFilterNew
  /\ applied = NoCall

taskVars == <<pc, op, self_ptr, conn, ret, result, acquired, released, seen, left,
              captured, cancelled, attempts, invoked>>

\* A constructor that reports the failure but keeps the half-built pool alive.
NewKeepsFailedPool(target, size) ==
  /\ newResult = NotCalled
  /\ newResult' = (IF target = "good" THEN "Ok" ELSE "NotConnected")
  /\ poolSize' = size
  /\ idle' = [idle EXCEPT ![Db] = 1..size]
  /\ UNCHANGED <<table, taskVars, filterVars>>

\* DbDriver::new: Pool::builder().build(manager); a pool that cannot be built
\* is an io::Error of kind NotConnected and there is no driver.
New(target, size) ==
  /\ newResult = NotCalled
  /\ IF target = "good"
       THEN /\ newResult' = "Ok"
            /\ poolSize' = size
            /\ idle' = [idle EXCEPT ![Db] = 1..size]
       ELSE /\ newResult' = "NotConnected"
            /\ UNCHANGED <<poolSize, idle>>
  /\ UNCHANGED <<table, taskVars, filterVars>>

\* A clone with a pool of its own, holding a copy of the pool's state.
CloneCopiesPool(self, t) == [ptr |-> t, idle |-> [idle EXCEPT ![t] = idle[self]]]

\* impl Clone for DbDriver: pool.clone() is another handle to the same pool.
Clone(self, t) == [ptr |-> self, idle |-> idle]

\* An execute that takes its connection on the caller's side, before the
\* closure is handed to spawn_blocking, and moves it into the closure.
CallAcquiresFirst(t, o) ==
  /\ newResult = "Ok"
  /\ pc[t] = "idle"
  /\ pc' = [pc EXCEPT ![t] = "spawned"]
  /\ op' = [op EXCEPT ![t] = o]
  /\ ret' = [ret EXCEPT ![t] = NoResult]
  /\ result' = [result EXCEPT ![t] = NoResult]
  /\ acquired' = [acquired EXCEPT ![t] = 0]
  /\ released' = [released EXCEPT ![t] = 0]
  /\ self_ptr' = [self_ptr EXCEPT ![t] = Db]
  /\ \E c \in idle[Db] :
       /\ idle' = [idle EXCEPT ![Db] = @ \ {c}]
       /\ conn' = [conn EXCEPT ![t] = {c}]
  /\ captured' = [captured EXCEPT ![t] = Capture(o)]
  /\ cancelled' = [cancelled EXCEPT ![t] = FALSE]
  /\ attempts' = [attempts EXCEPT ![t] = 0]
  /\ invoked' = [invoked EXCEPT ![t] = 0]
  /\ UNCHANGED <<newResult, poolSize, table, seen, left, filterVars>>

\* execute, up to the await: the driver is cloned (the clone shares the pool)
\* and the closure is handed to spawn_blocking.
Call(t, o) ==
  /\ newResult = "Ok"
  /\ pc[t] = "idle"
  /\ pc' = [pc EXCEPT ![t] = "spawned"]
  /\ op' = [op EXCEPT ![t] = o]
  /\ ret' = [ret EXCEPT ![t] = NoResult]
  /\ result' = [result EXCEPT ![t] = NoResult]
  /\ acquired' = [acquired EXCEPT ![t] = 0]
  /\ released' = [released EXCEPT ![t] = 0]
  /\ LET c == Clone(Db, t)
     IN /\ self_ptr' = [self_ptr EXCEPT ![t] = c.ptr]
        /\ idle' = c.idle
  /\ captured' = [captured EXCEPT ![t] = Capture(o)]
  /\ cancelled' = [cancelled EXCEPT ![t] = FALSE]
  /\ attempts' = [attempts EXCEPT ![t] = 0]
  /\ invoked' = [invoked EXCEPT ![t] = 0]
  /\ UNCHANGED <<newResult, poolSize, table, conn, seen, left, filterVars>>

\* A pool that hands out a connection and keeps it on the free list.
PoolGetKeeps(h, c) == idle

\* Pool::get as get_conn calls it: an idle connection leaves the free list.
PoolGet(h, c) == [idle EXCEPT ![h] = @ \ {c}]

\* get_conn succeeds on the worker: the closure now owns a connection.
GetConnOk(t) ==
  /\ pc[t] = "spawned"
  /\ \E c \in idle[self_ptr[t]] :
       /\ idle' = PoolGet(self_ptr[t], c)
       /\ conn' = [conn EXCEPT ![t] = @ \cup {c}]
  /\ pc' = [pc EXCEPT ![t] = "working"]
  /\ acquired' = [acquired EXCEPT ![t] = @ + 1]
  /\ attempts' = [attempts EXCEPT ![t] = @ + 1]
  /\ UNCHANGED <<newResult, poolSize, table, op, self_ptr, ret, result, released, seen, left,
                 captured, cancelled, invoked, filterVars>>

\* A closure that swallows the failure of get_conn and reports success.
GetConnErrSwallowed == Ok(Unit)

\* What the closure returns when get_conn failed: the pool's error is mapped
\* to BrokenTransactionManager and `?` returns it; f is not called.
GetConnErrValue == Err(BrokenTransactionManager)

\* A closure that asks the pool a second time after a first failure.
GetConnErrRetries(t) ==
  /\ pc[t] = "spawned"
  /\ attempts' = [attempts EXCEPT ![t] = @ + 1]
  /\ IF attempts[t] = 0
       THEN UNCHANGED <<pc, ret>>
       ELSE /\ pc' = [pc EXCEPT ![t] = "joined"]
            /\ ret' = [ret EXCEPT ![t] = GetConnErrValue]
  /\ UNCHANGED <<newResult, poolSize, idle, table, op, self_ptr, conn, result, acquired, released,
                 seen, left, captured, cancelled, invoked, filterVars>>

\* get_conn fails (the pool timed out or could not connect).
GetConnErr(t) ==
  /\ pc[t] = "spawned"
  /\ pc' = [pc EXCEPT ![t] = "joined"]
  /\ ret' = [ret EXCEPT ![t] = GetConnErrValue]
  /\ attempts' = [attempts EXCEPT ![t] = @ + 1]
  /\ UNCHANGED <<newResult, poolSize, idle, table, op, self_ptr, conn, result, acquired, released,
                 seen, left, captured, cancelled, invoked, filterVars>>

\* The value the unit of work computes, and the rows it leaves.
WorkValue(o, rows) ==
  CASE o.kind = "create" -> InsertResult(o.item, rows)
    [] o.kind = "del_by_pk" -> Ok(Unit)
    [] o.kind = "del_by" -> Ok(Unit)
    [] o.kind = "execute" -> o.work
WorkRows(o, rows) ==
  CASE o.kind = "create" -> InsertRows(o.item, rows)
    [] o.kind = "del_by_pk" -> rows \ Selected(Find(o.pk), rows)
    [] o.kind = "del_by" -> rows \ Selected(gen_del_query(o.filter), rows)
    [] o.kind = "execute" -> rows

\* f(conn) runs its one statement; the closure still owns the connection.
RunWork(t) ==
  /\ pc[t] = "working"
  /\ ~(captured[t].kind = "execute" /\ captured[t].work.tag = "panic")
  /\ pc' = [pc EXCEPT ![t] = "worked"]
  /\ table' = WorkRows(captured[t], table)
  /\ ret' = [ret EXCEPT ![t] = WorkValue(captured[t], table)]
  /\ seen' = [seen EXCEPT ![t] = table]
  /\ left' = [left EXCEPT ![t] = table']
  /\ invoked' = [invoked EXCEPT ![t] = @ + 1]
  /\ UNCHANGED <<newResult, poolSize, idle, op, self_ptr, conn, result, acquired, released,
                 captured, cancelled, attempts, filterVars>>

\* Dropping the PooledConnections a closure owns, when it ends normally or by
\* unwinding: each goes back to the free list and the closure owns none.
DropConn(h, held) ==
  [idle |-> [idle EXCEPT ![h] = @ \cup held], conn |-> {}, released |-> Cardinality(held)]

\* A worker that is stopped with its caller: the closure of a cancelled call
\* never returns, so its connection is never dropped.
WorkReturnStopsWithCaller(t) ==
  /\ pc[t] = "worked"
  /\ ~cancelled[t]
  /\ pc' = [pc EXCEPT ![t] = "joined"]
  /\ LET d == DropConn(self_ptr[t], conn[t])
     IN /\ idle' = d.idle
        /\ conn' = [conn EXCEPT ![t] = d.conn]
        /\ released' = [released EXCEPT ![t] = @ + d.released]
  /\ seen' = [seen EXCEPT ![t] = {}]
  /\ left' = [left EXCEPT ![t] = {}]
  /\ UNCHANGED <<newResult, poolSize, table, op, self_ptr, ret, result, acquired,
                 callVars, cancelled, filterVars>>

\* f(conn) returns: conn goes out of scope and the join handle gets the value.
WorkReturn(t) ==
  /\ pc[t] = "worked"
  /\ pc' = [pc EXCEPT ![t] = "joined"]
  /\ LET d == DropConn(self_ptr[t], conn[t])
     IN /\ idle' = d.idle
        /\ conn' = [conn EXCEPT ![t] = d.conn]
        /\ released' = [released EXCEPT ![t] = @ + d.released]
  /\ seen' = [seen EXCEPT ![t] = {}]
  /\ left' = [left EXCEPT ![t] = {}]
  /\ UNCHANGED <<newResult, poolSize, table, op, self_ptr, ret, result, acquired,
                 callVars, cancelled, filterVars>>

\* A unit of work whose panic leaves its connection leased for ever.
UnwindLeaks(h, held) == [idle |-> idle, conn |-> held, released |-> 0]

\* A panic in f(conn) unwinds the closure's frame, which drops conn.
UnwindConn(h, held) == DropConn(h, held)

\* A panic that takes the worker thread down without completing the join
\* handle: the connection is dropped but the awaiting caller is never woken.
WorkPanicHangs(t) ==
  /\ pc[t] = "working"
  /\ captured[t].kind = "execute" /\ captured[t].work.tag = "panic"
  /\ LET d == DropConn(self_ptr[t], conn[t])
     IN /\ idle' = d.idle
        /\ conn' = [conn EXCEPT ![t] = d.conn]
        /\ released' = [released EXCEPT ![t] = @ + d.released]
  /\ UNCHANGED <<newResult, poolSize, table, pc, op, self_ptr, ret, result, acquired, seen, left,
                 captured, cancelled, attempts, invoked, filterVars>>

\* f(conn) panics: unwinding drops conn, the join handle gets a JoinError.
WorkPanic(t) ==
  /\ pc[t] = "working"
  /\ captured[t].kind = "execute" /\ captured[t].work.tag = "panic"
  /\ pc' = [pc EXCEPT ![t] = "joined"]
  /\ LET d == UnwindConn(self_ptr[t], conn[t])
     IN /\ idle' = d.idle
        /\ conn' = [conn EXCEPT ![t] = d.conn]
        /\ released' = [released EXCEPT ![t] = @ + d.released]
  /\ ret' = [ret EXCEPT ![t] = JoinError]
  /\ invoked' = [invoked EXCEPT ![t] = @ + 1]
  /\ UNCHANGED <<newResult, poolSize, table, op, self_ptr, result, acquired, seen, left,
                 captured, cancelled, attempts, filterVars>>

\* A join that turns a panicked unit of work into a success.
JoinedLosesPanic(r) == IF r.tag = "JoinError" THEN Ok(Unit) ELSE r

\* A join that reports every error of the closure as BrokenTransactionManager.
JoinedFlattensErrors(r) == IF r.tag = "Ok" THEN r ELSE Err(BrokenTransactionManager)

\* .await.map_err(|_| BrokenTransactionManager)? : a JoinError becomes
\* BrokenTransactionManager, anything else is the closure's own result.
Joined(r) == IF r.tag = "JoinError" THEN Err(BrokenTransactionManager) ELSE r

\* The awaiting caller is resumed with the result.
Resolve(t) ==
  /\ pc[t] = "joined"
  /\ ~cancelled[t]
  /\ pc' = [pc EXCEPT ![t] = "resolved"]
  /\ result' = [result EXCEPT ![t] = Joined(ret[t])]
  /\ UNCHANGED <<newResult, poolSize, idle, table, op, self_ptr, conn, ret, acquired, released,
                 seen, left, callVars, cancelled, filterVars>>

\* The caller takes the result and is free to call again.
Done(t) ==
  /\ pc[t] = "resolved"
  /\ pc' = [pc EXCEPT ![t] = "idle"]
  /\ op' = [op EXCEPT ![t] = NoOp]
  /\ ret' = [ret EXCEPT ![t] = NoResult]
  /\ result' = [result EXCEPT ![t] = NoResult]
  /\ acquired' = [acquired EXCEPT ![t] = 0]
  /\ released' = [released EXCEPT ![t] = 0]
  /\ captured' = [captured EXCEPT ![t] = NoOp]
  /\ attempts' = [attempts EXCEPT ![t] = 0]
  /\ invoked' = [invoked EXCEPT ![t] = 0]
  /\ UNCHANGED <<newResult, poolSize, idle, table, self_ptr, conn, seen, left, cancelled, filterVars>>

\* The calling task is cancelled or dropped while it awaits execute: the join
\* handle is dropped with it, which detaches the closure and stops nothing.
Cancel(t) ==
  /\ pc[t] \in {"spawned", "working", "worked", "joined"}
  /\ ~cancelled[t]
  /\ cancelled' = [cancelled EXCEPT ![t] = TRUE]
  /\ UNCHANGED <<newResult, poolSize, idle, table, pc, op, self_ptr, conn, ret, result,
                 acquired, released, seen, left, callVars, filterVars>>

\* The closure of a cancelled call has ended: its value has no reader and is
\* discarded; nothing of the call remains.
Abandon(t) ==
  /\ pc[t] = "joined"
  /\ cancelled[t]
  /\ pc' = [pc EXCEPT ![t] = "idle"]
  /\ op' = [op EXCEPT ![t] = NoOp]
  /\ ret' = [ret EXCEPT ![t] = NoResult]
  /\ acquired' = [acquired EXCEPT ![t] = 0]
  /\ released' = [released EXCEPT ![t] = 0]
  /\ captured' = [captured EXCEPT ![t] = NoOp]
  /\ attempts' = [attempts EXCEPT ![t] = 0]
  /\ invoked' = [invoked EXCEPT ![t] = 0]
  /\ cancelled' = [cancelled EXCEPT ![t] = FALSE]
  /\ UNCHANGED <<newResult, poolSize, idle, table, self_ptr, conn, result, seen, left, filterVars>>

Next ==
  \/ \E target \in {"good", "bad"}, size \in 1..MaxPoolSize : New(target, size)
  \/ \E t \in Tasks, o \in SchedOps : Call(t, o)
  \/ \E t \in Tasks : GetConnOk(t)
  \/ \E t \in Tasks : GetConnErr(t)
  \/ \E t \in Tasks : RunWork(t)
  \/ \E t \in Tasks : WorkReturn(t)
  \/ \E t \in Tasks : WorkPanic(t)
  \/ \E t \in Tasks : Resolve(t)
  \/ \E t \in Tasks : Done(t)

\* NumTasks callers, the operations of SchedOps.
Spec == Init /\ [][Next]_vars

NextCrud ==
  \/ \E target \in {"good", "bad"}, size \in CrudSizes : New(target, size)
  \/ \E t \in CrudTasks, o \in Ops : Call(t, o)
  \/ \E t \in CrudTasks : GetConnOk(t)
  \/ \E t \in CrudTasks : GetConnErr(t)
  \/ \E t \in CrudTasks : RunWork(t)
  \/ \E t \in CrudTasks : WorkReturn(t)
  \/ \E t \in CrudTasks : WorkPanic(t)
  \/ \E t \in CrudTasks : Resolve(t)
  \/ \E t \in CrudTasks : Done(t)

\* Two callers, every operation of Ops.
SpecCrud == Init /\ [][NextCrud]_vars

\* The operations of the specification with cancellation and fairness.
LiveOps ==
  {[kind |-> "create", item |-> DbUser("1", "a")],
   [kind |-> "execute", work |-> Err(NotFound)],
   [kind |-> "execute", work |-> [tag |-> "panic"]]}

NextLive ==
  \/ \E target \in {"good", "bad"}, size \in 1..MaxPoolSize : New(target, size)
  \/ \E t \in CrudTasks, o \in LiveOps : Call(t, o)
  \/ \E t \in CrudTasks : GetConnOk(t)
  \/ \E t \in CrudTasks : GetConnErr(t)
  \/ \E t \in CrudTasks : RunWork(t)
  \/ \E t \in CrudTasks : WorkReturn(t)
  \/ \E t \in CrudTasks : WorkPanic(t)
  \/ \E t \in CrudTasks : Resolve(t)
  \/ \E t \in CrudTasks : Done(t)
  \/ \E t \in CrudTasks : Cancel(t)
  \/ \E t \in CrudTasks : Abandon(t)

\* What the runtime and the pool guarantee: pool.get() returns within its
\* connection timeout, with a connection or an error; a blocking worker thread
\* that can take a step takes it; a task whose join handle is ready is woken.
\* Callers are not obliged to call, to finish or to be cancelled.
Fairness ==
  \A t \in CrudTasks :
    /\ WF_vars(GetConnOk(t) \/ GetConnErr(t))
    /\ WF_vars(RunWork(t))
    /\ WF_vars(WorkReturn(t))
    /\ WF_vars(WorkPanic(t))
    /\ WF_vars(Resolve(t))

\* Two callers that may be cancelled, the operations of LiveOps, fair worker
\* threads.
SpecLive == Init /\ [][NextLive]_vars /\ Fairness

\* The arguments callers give the builder methods of GenericFilter.
MaxUsize == 1
FilterKeys == {"id", "name"}
Clauses == {Eq("1"), Ne("1"), In(<<>>), NotIn(<<"2">>)}

\* A caller builds a filter: GenericFilter::new(), then where, limit, offset
\* in any order; each call consumes the filter and returns the next one.
FilterNew ==
  /\ applied # NoCall
  /\ built' = GenericFilterNew
  /\ applied' = NoCall
  /\ UNCHANGED <<newResult, poolSize, idle, table, taskVars>>
FilterWhere(key, clause) ==
  /\ built' = Where(built, key, clause)
  /\ applied' = [fn |-> "where", key |-> key, clause |-> clause, n |-> 0, before |-> built]
  /\ UNCHANGED <<newResult, poolSize, idle, table, taskVars>>
FilterLimit(n) ==
  /\ built' = Limit(built, n)
  /\ applied' = [fn |-> "limit", key |-> "", clause |-> Eq(""), n |-> n, before |-> built]
  /\ UNCHANGED <<newResult, poolSize, idle, table, taskVars>>
FilterOffset(n) ==
  /\ built' = Offset(built, n)
  /\ applied' = [fn |-> "offset", key |-> "", clause |-> Eq(""), n |-> n, before |-> built]
  /\ UNCHANGED <<newResult, poolSize, idle, table, taskVars>>

NextFilter ==
  \/ FilterNew
  \/ \E key \in FilterKeys, clause \in Clauses : FilterWhere(key, clause)
  \/ \E n \in 0..MaxUsize : FilterLimit(n)
  \/ \E n \in 0..MaxUsize : FilterOffset(n)

\* The builder methods applied to every filter they can build.
SpecFilter == Init /\ [][NextFilter]_vars

TypeOK ==
  /\ newResult \in {NotCalled, "Ok", "NotConnected"}
  /\ poolSize \in 0..MaxPoolSize
  /\ \A h \in Pools : idle[h] \subseteq Conns
  /\ table \subseteq Users
  /\ \A t \in Tasks :
       /\ pc[t] \in {"idle", "spawned", "working", "worked", "joined", "resolved"}
       /\ conn[t] \subseteq Conns
       /\ self_ptr[t] \in Pools
       /\ op[t] \in Ops \cup {NoOp}
       /\ captured[t] \in Ops \cup {NoOp}
       /\ cancelled[t] \in BOOLEAN
       /\ attempts[t] \in 0..1
       /\ invoked[t] \in 0..1

\* ------------------------------------------------------------------ properties
\* How a resolved call failed, if it did.
AcquireFailed(t) == pc[t] = "resolved" /\ acquired[t] = 0
Panicked(t) ==
  pc[t] = "resolved" /\ acquired[t] = 1 /\ op[t].kind = "execute" /\ op[t].work.tag = "panic"
WorkFailed(t) ==
  pc[t] = "resolved" /\ acquired[t] = 1 /\ ret[t].tag = "Err"

\* The predicate section 4.3 of the specification gives a filter: the AND of
\* the clauses of its where map, no constraint when the map is absent.
Matches(row, filter) ==
  LET m == UnwrapOrDefault(filter.where)
  IN \A k \in DOMAIN m : ClauseHolds(row, k, m[k])

\* The primary keys of a set of rows.
KeysOf(rows) == {r.id : r \in rows}

\* A lookup by primary key: the row, or NotFound.
Lookup(rows, k) ==
  IF k \in KeysOf(rows) THEN Ok(CHOOSE r \in rows : r.id = k) ELSE Err(NotFound)

\* The statement of task t has run and its closure has not returned yet.
Ran(t, kind) == pc[t] = "worked" /\ op[t].kind = kind

\* C1: a call of execute that acquired a connection has returned it exactly
\* once when its closure has ended, whether the work returned Ok, returned an
\* error or panicked, and so before execute resolves to its caller; while the
\* work runs the closure owns exactly that one connection.
C1_ReleasedExactlyOnce ==
  \A t \in Tasks :
    /\ released[t] <= acquired[t]
    /\ acquired[t] <= 1
    /\ pc[t] \in {"working", "worked"} =>
         acquired[t] = 1 /\ released[t] = 0 /\ Cardinality(conn[t]) = 1
    /\ pc[t] \in {"joined", "resolved", "idle"} =>
         conn[t] = {} /\ released[t] = acquired[t]

\* C1 witness: a call whose unit of work panicked has resolved, with its one
\* connection returned once.
C1_Witness ==
  \E t \in Tasks :
    /\ Panicked(t)
    /\ released[t] = 1
    /\ conn[t] = {}
    /\ Cardinality(idle[Db]) = poolSize

\* C2: every clone of the driver refers to the driver's one pool; no
\* connection is leased to two units of work at once, a leased connection is
\* not on the free list, and the number of units holding a lease never exceeds
\* the pool size.
C2_NoSharedLease ==
  /\ \A t, u \in Tasks : t # u => conn[t] \cap conn[u] = {}
  /\ \A t \in Tasks : self_ptr[t] = Db /\ conn[t] \cap idle[Db] = {}
  /\ Cardinality({t \in Tasks : conn[t] # {}}) <= poolSize

\* C2 witness: the pool is exhausted: as many units hold a lease as the pool
\* has connections, two of them at once.
C2_Witness ==
  /\ \E t, u \in Tasks : t # u /\ conn[t] # {} /\ conn[u] # {}
  /\ idle[Db] = {}

\* C3: with a pool of size 1, a call acquires a connection only when no other
\* call holds one, and while a call holds the connection only its own
\* statement changes the table.
C3_SizeOneSerializes ==
  [][poolSize = 1 =>
       \A t \in Tasks :
         /\ (conn[t] = {} /\ conn'[t] # {}) => \A u \in Tasks \ {t} : conn[u] = {}
         /\ (conn[t] # {} /\ pc'[t] = pc[t]) => table' = table]_vars

\* C3 witness: pool of size 1, one call has changed the table and still holds
\* the connection while a second call waits to acquire.
C3_Witness ==
  /\ poolSize = 1
  /\ \E t, u \in Tasks :
       /\ t # u
       /\ pc[t] = "worked" /\ seen[t] # left[t] /\ conn[t] # {}
       /\ pc[u] = "spawned"

\* C4 (as claimed): del_by(f) deletes exactly the rows that satisfy every
\* clause of f.where and leaves the others.
C4_DelByDeletesMatching ==
  \A t \in Tasks :
    Ran(t, "del_by") => left[t] = {r \in seen[t] : ~Matches(r, op[t].filter)}

\* A clause In([]) or NotIn([]).
IsEmptyIn(c) == c.kind = "In" /\ c.args = <<>>
IsEmptyNotIn(c) == c.kind = "NotIn" /\ c.args = <<>>

\* C5 (as claimed): a filter with In([]) on some field deletes no row; a
\* NotIn([]) clause constrains nothing, so the rows deleted are those the
\* other clauses select.
C5_EmptyInDeletesNothing ==
  \A t \in Tasks :
    Ran(t, "del_by") =>
      LET m == UnwrapOrDefault(op[t].filter.where)
          rest == {k \in DOMAIN m : ~IsEmptyNotIn(m[k])}
      IN /\ (\E k \in DOMAIN m : IsEmptyIn(m[k])) => left[t] = seen[t]
         /\ (\E k \in DOMAIN m : IsEmptyNotIn(m[k])) =>
              left[t] = {r \in seen[t] : ~(\A k \in rest : ClauseHolds(r, k, m[k]))}

\* C6: del_by with an empty or absent where succeeds and leaves no row,
\* whatever the table held.
C6_EmptyWhereDeletesAll ==
  \A t \in Tasks :
    (Ran(t, "del_by") /\ DOMAIN UnwrapOrDefault(op[t].filter.where) = {}) =>
      left[t] = {} /\ ret[t] = Ok(Unit)

\* C6 witness: a del_by with Some(empty map) found two rows and left none.
C6_Witness ==
  \E t \in Tasks :
    /\ Ran(t, "del_by")
    /\ op[t].filter.where = Some(EmptyMap)
    /\ Cardinality(seen[t]) = 2
    /\ left[t] = {}

\* C7: create(v) with a primary key not in the table returns v and leaves the
\* previous rows plus v; whenever create resolves to Ok it is Ok(v).
C7_CreateReturnsItem ==
  \A t \in Tasks :
    /\ (Ran(t, "create") /\ op[t].item.id \notin KeysOf(seen[t])) =>
         ret[t] = Ok(op[t].item) /\ left[t] = seen[t] \cup {op[t].item}
    /\ (pc[t] = "resolved" /\ op[t].kind = "create" /\ result[t].tag = "Ok") =>
         result[t] = Ok(op[t].item)

\* C7 witness: a create found one row with another key and left two.
C7_Witness ==
  \E t \in Tasks :
    /\ Ran(t, "create")
    /\ Cardinality(seen[t]) = 1
    /\ op[t].item.id \notin KeysOf(seen[t])
    /\ left[t] = seen[t] \cup {op[t].item}
    /\ ret[t] = Ok(op[t].item)

\* C8 (as claimed): a deletion that matches no row is Ok and changes nothing,
\* for del_by_pk with an absent key and for del_by with a filter no row
\* satisfies.
C8_ZeroMatchIsOkAndNoChange ==
  \A t \in Tasks :
    /\ (Ran(t, "del_by_pk") /\ op[t].pk \notin KeysOf(seen[t])) =>
         ret[t] = Ok(Unit) /\ left[t] = seen[t]
    /\ (Ran(t, "del_by") /\ \A r \in seen[t] : ~Matches(r, op[t].filter)) =>
         ret[t] = Ok(Unit) /\ left[t] = seen[t]

\* C9: after del_by_pk(k) succeeded the table has no row with key k, a lookup
\* of k is NotFound, and every row with another key is as it was.
C9_DelByPkRemovesKey ==
  \A t \in Tasks :
    Ran(t, "del_by_pk") =>
      /\ ret[t] = Ok(Unit)
      /\ left[t] = {r \in seen[t] : r.id # op[t].pk}
      /\ Lookup(left[t], op[t].pk) = Err(NotFound)

\* C9 witness: del_by_pk("1") found User{id:"1",name:"a"} beside another row
\* and left only the other row.
C9_Witness ==
  \E t \in Tasks :
    /\ Ran(t, "del_by_pk")
    /\ op[t].pk = "1"
    /\ DbUser("1", "a") \in seen[t]
    /\ Cardinality(seen[t]) = 2
    /\ left[t] = seen[t] \ {DbUser("1", "a")}

\* C10 (as claimed): a failed acquisition and a panicked unit of work resolve
\* to different errors, and each differs from any error the work returns.
C10_DistinctErrors ==
  \A t, u \in Tasks :
    /\ (AcquireFailed(t) /\ Panicked(u)) => result[t] # result[u]
    /\ ((AcquireFailed(t) \/ Panicked(t)) /\ WorkFailed(u)) => result[t] # result[u]

\* C10 (amended): a failed acquisition and a panicked unit of work both
\* resolve to Err(BrokenTransactionManager), never to Ok; an error the work
\* returns is surfaced as it is, so it differs from theirs unless the work
\* itself returned BrokenTransactionManager.
C10_BothBrokenTransactionManager ==
  \A t \in Tasks :
    /\ (AcquireFailed(t) \/ Panicked(t)) => result[t] = Err(BrokenTransactionManager)
    /\ WorkFailed(t) =>
         /\ result[t] = ret[t]
         /\ (ret[t].err # BrokenTransactionManager => result[t] # Err(BrokenTransactionManager))

\* C10 witness: one call failed to acquire and another panicked, and both have
\* resolved to the same error.
C10_Witness ==
  \E t, u \in Tasks :
    /\ AcquireFailed(t)
    /\ Panicked(u)
    /\ result[t] = result[u]

C12_AcquireFailureRunsNothing ==
  [][\A t \in Tasks :
       /\ (pc[t] = "spawned" /\ pc'[t] = "joined") =>
            /\ acquired'[t] = 0
            /\ ret'[t].tag = "Err"
            /\ table' = table
       /\ (pc'[t] \in {"joined", "resolved"} /\ acquired'[t] = 0) =>
            /\ invoked'[t] = 0
            /\ ret'[t].tag = "Err"
       /\ (pc'[t] = "resolved" /\ acquired'[t] = 0) => result'[t].tag = "Err"]_vars

\* C12 witness: a del_by whose acquisition failed resolved to an error without
\* its unit of work having run, with rows still in the table.
C12_Witness ==
  \E t \in Tasks :
    /\ AcquireFailed(t)
    /\ op[t].kind = "del_by"
    /\ attempts[t] = 1
    /\ invoked[t] = 0
    /\ result[t] = Err(BrokenTransactionManager)
    /\ table # {}

\* C13: create(v) for a primary key that is already in the table returns the
\* backend's error and leaves the table exactly as the statement found it: the
\* stored row is neither replaced nor duplicated; the call resolves to that
\* error.
C13_DuplicateKeyRejected ==
  \A t \in Tasks :
    /\ (Ran(t, "create") /\ op[t].item.id \in KeysOf(seen[t])) =>
         /\ ret[t] = Err(UniqueViolation)
         /\ left[t] = seen[t]
         /\ Cardinality(KeysOf(left[t])) = Cardinality(left[t])
    /\ (pc[t] = "resolved" /\ op[t].kind = "create" /\ ret[t] = Err(UniqueViolation)) =>
         result[t] = Err(UniqueViolation)

\* C13 witness: a create found a row with its key and another name, and left
\* that row as it was.
C13_Witness ==
  \E t \in Tasks :
    /\ Ran(t, "create")
    /\ \E r \in seen[t] : r.id = op[t].item.id /\ r.name # op[t].item.name
    /\ op[t].item \notin left[t]
    /\ left[t] = seen[t]
    /\ ret[t] = Err(UniqueViolation)

\* C14: when the calling task is cancelled while it awaits execute, a unit of
\* work that has started still runs to its end on the worker thread and its
\* connection comes back to the pool: the lease does not outlive the closure.
C14_CancelledWorkCompletes ==
  \A t \in Tasks :
    (cancelled[t] /\ pc[t] \in {"working", "worked"}) ~>
      (cancelled[t] /\ pc[t] = "joined" /\ invoked[t] = 1
         /\ conn[t] = {} /\ released[t] = 1)

\* C14 witness: the closure of a call cancelled while its work was running has
\* ended with the work done and every connection back in the pool.
C14_Witness ==
  \E t \in Tasks :
    /\ cancelled[t] /\ pc[t] = "joined"
    /\ captured[t].kind = "create" /\ captured[t].item \in table
    /\ ret[t] = Ok(captured[t].item)
    /\ acquired[t] = 1 /\ released[t] = 1 /\ conn[t] = {}
    /\ Cardinality(idle[Db]) = poolSize

\* The caller of task t is suspended in a call whose closure has not been
\* read yet.
InCall(t) == pc[t] \in {"spawned", "working", "worked", "joined"}

\* C15: del_by(driver, &f) leaves the caller's f as it was for the whole call;
\* the closure works on its own copy, taken when the call was made and equal
\* to f in where, limit and offset; two calls in flight that were given the
\* same filter hold equal copies.
C15_FilterCopiedAtCall ==
  [][\A t \in Tasks :
       /\ (InCall(t) /\ op[t].kind = "del_by") =>
            /\ op'[t] = op[t]
            /\ captured'[t] = captured[t]
       /\ (InCall(t)' /\ op'[t].kind = "del_by") =>
            /\ captured'[t].kind = "del_by"
            /\ captured'[t].filter.where = op'[t].filter.where
            /\ captured'[t].filter.limit = op'[t].filter.limit
            /\ captured'[t].filter.offset = op'[t].filter.offset
            /\ \A u \in Tasks :
                 (InCall(u)' /\ op'[u].kind = "del_by" /\ op'[u].filter = op'[t].filter) =>
                   captured'[u].filter = captured'[t].filter]_vars

\* C15 witness: two del_by calls given the same filter, one with a where
\* clause and a limit, are in flight at once, one of them past its statement.
C15_Witness ==
  \E t, u \in Tasks :
    /\ t # u
    /\ Ran(t, "del_by") /\ pc[u] = "working" /\ op[u].kind = "del_by"
    /\ op[t].filter = op[u].filter
    /\ op[t].filter.limit.some /\ op[t].filter.where.some
    /\ captured[t].filter = op[t].filter
    /\ captured[u].filter = op[t].filter

\* C16: DbDriver::new against a target whose pool cannot be built returns the
\* pool-initialisation error (an io::Error of kind NotConnected in the code)
\* and no driver: no pool exists, so no call can be made on it, and no
\* connection is idle, leased or left behind.
C16_FailedNewLeavesNothing ==
  newResult = "NotConnected" =>
    /\ poolSize = 0
    /\ \A h \in Pools : idle[h] = {}
    /\ \A t \in Tasks :
         pc[t] = "idle" /\ conn[t] = {} /\ acquired[t] = 0 /\ attempts[t] = 0

\* C16 witness: the constructor has failed.
C16_Witness ==
  /\ newResult = "NotConnected"
  /\ poolSize = 0
  /\ idle[Db] = {}

\* C17: a call of execute asks the pool for a connection exactly once, takes
\* at most one lease and invokes its unit of work at most once: nothing is
\* tried again, neither after a failed acquisition nor after a failed
\* statement, which both end the call with one attempt made.
C17_NoRetries ==
  \A t \in Tasks :
    /\ attempts[t] <= 1 /\ acquired[t] <= attempts[t] /\ invoked[t] <= acquired[t]
    /\ pc[t] = "spawned" => attempts[t] = 0
    /\ pc[t] \in {"working", "worked", "joined", "resolved"} => attempts[t] = 1
    /\ pc[t] = "working" => invoked[t] = 0
    /\ pc[t] \in {"worked", "joined", "resolved"} => invoked[t] = acquired[t]

\* C17 witness: one call ended by a failed acquisition and one ended by a
\* failed statement, each after a single attempt.
C17_Witness ==
  /\ \E t \in Tasks : AcquireFailed(t) /\ attempts[t] = 1 /\ invoked[t] = 0
  /\ \E t \in Tasks :
       /\ WorkFailed(t) /\ result[t] = Err(UniqueViolation)
       /\ attempts[t] = 1 /\ invoked[t] = 1

\* The closure of task t is running on a blocking worker thread: it has been
\* taken off the queue and has not returned.
OnWorker(t) == pc[t] \in {"working", "worked"}

\* C18: a connection is leased only to a closure that is running on a
\* blocking worker thread.  It is taken by the closure's own get_conn, in the
\* step that follows the offload, never by the step that makes the call; a
\* call that is queued, joined, resolved or not made holds no lease, so no
\* caller holds one across its await.
C18_LeaseOnlyOnWorker ==
  [][\A t \in Tasks :
       /\ conn[t] # {} => OnWorker(t)
       /\ conn'[t] # {} => OnWorker(t)'
       /\ (conn[t] = {} /\ conn'[t] # {}) =>
            /\ pc[t] = "spawned" /\ pc'[t] = "working"
            /\ attempts[t] = 0 /\ attempts'[t] = 1
       /\ (pc[t] = "idle" /\ pc'[t] = "spawned") => conn'[t] = {}]_vars

\* C18 witness: one closure holds a lease on its worker while another call is
\* queued behind the offload with its caller suspended and holds none.
C18_Witness ==
  \E t, u \in Tasks :
    /\ OnWorker(t) /\ conn[t] # {} /\ attempts[t] = 1
    /\ pc[u] = "spawned" /\ conn[u] = {} /\ attempts[u] = 0

\* C19: where(key, clause) returns a filter whose where map has clause under
\* key, in place of any clause key had, has every other key with the clause
\* it had and no further key, and whose limit and offset are the receiver's;
\* limit(n) and offset(n) set their own field to n and leave the other two
\* fields as they were.
C19_BuildersSetOnlyTheirField ==
  LET b == applied.before
      mb == UnwrapOrDefault(b.where)
  IN /\ applied.fn = "where" =>
          /\ built.where.some
          /\ DOMAIN built.where.v = (DOMAIN mb) \cup {applied.key}
          /\ built.where.v[applied.key] = applied.clause
          /\ \A k \in (DOMAIN mb) \ {applied.key} : built.where.v[k] = mb[k]
          /\ built.limit = b.limit /\ built.offset = b.offset
     /\ applied.fn = "limit" =>
          /\ built.limit = Some(applied.n)
          /\ built.where = b.where /\ built.offset = b.offset
     /\ applied.fn = "offset" =>
          /\ built.offset = Some(applied.n)
          /\ built.where = b.where /\ built.limit = b.limit

\* C19 witness: where replaced the clause of a key in a filter that has
\* another key, a limit and an offset.
C19_Witness ==
  /\ applied.fn = "where"
  /\ applied.before.where.some
  /\ DOMAIN applied.before.where.v = FilterKeys
  /\ applied.before.where.v[applied.key] # applied.clause
  /\ applied.before.limit.some /\ applied.before.offset.some
  /\ DOMAIN built.where.v = FilterKeys
  /\ built.where.v[applied.key] = applied.clause

\* C20: with fair worker threads, for every pool size and any number of calls
\* in flight, a call of execute that has been made resolves, to a result or
\* to an error, unless its caller is cancelled first; a call waiting for a
\* connection holds none, and when no connection is idle each one is with a
\* closure running on a worker, so the calls it waits for can always go on.
C20_EveryCallResolves ==
  /\ [](\A t \in Tasks : pc[t] = "spawned" => conn[t] = {})
  /\ []((newResult = "Ok" /\ idle[Db] = {}) =>
          Cardinality({u \in Tasks : OnWorker(u) /\ conn[u] # {}}) = poolSize)
  /\ \A t \in Tasks :
       pc[t] = "spawned" ~> ((pc[t] = "resolved" /\ result[t].tag \in {"Ok", "Err"}) \/ cancelled[t])

\* C20 witness: with every connection of the pool leased, a call that waited
\* behind the lease holders has resolved to a result.
C20_Witness ==
  \E t \in Tasks :
    /\ pc[t] = "resolved" /\ ~cancelled[t] /\ result[t].tag = "Ok"
    /\ idle[Db] = {}
    /\ \E u \in Tasks : u # t /\ OnWorker(u) /\ conn[u] # {}

====
